---- MODULE Spec2Model ----
(***************************************************************************)
(* Model of ARApp (src/ar-engine/src/js/main.js): the session lifecycle    *)
(* (init / animate / destroy), the tracking-mode controller with its lazy, *)
(* asynchronous visual-odometry (VO) initialisation, the sensor reference  *)
(* orientation, the touch gesture machine and the HUD overlay lifecycle.   *)
(*                                                                         *)
(* JavaScript is single threaded: every handler, timer callback and        *)
(* promise continuation runs to completion, so each is one action.  An     *)
(* `await` splits a function into one action per continuation.             *)
(*                                                                         *)
(* CameraPoseManager.js and VisualOdometry.js are imported by main.js but  *)
(* are not among the sources; what the model needs of them is taken from   *)
(* the specification (sections 4.1 and 6) and is marked as such.           *)
(***************************************************************************)
EXTENDS Integers, Sequences, FiniteSets, TLC

\* ------------------------------------------------------------------ bounds
MaxVOInits == 2        \* initVisualOdometry calls per behaviour
MaxTrackInits == 1     \* of them, in the sessions that run the tick loop
MaxVOFrames == 1       \* VO frames with tracking = true per behaviour
MaxPlacements == 2     \* overlays created per behaviour
MaxTouchStarts == 2    \* touchstart events per behaviour
MaxTouches == 2        \* simultaneous touch points
MaxClock == 3          \* clock steps per behaviour
MaxDestroys == 2       \* destroy calls per behaviour
MaxStarts == 2         \* start signals (init calls) per behaviour
MaxMouse == 2          \* mouse drags and wheel notches per behaviour

\* ------------------------------------------------------- program constants
TapSlop == 10          \* main.js:401  dx < 10 && dy < 10
DoubleTapMs == 300     \* main.js:403  now - lastTap < 300
SmoothingTenths == 2   \* main.js:238  setSmoothing(true, 0.2)
FrameWidth == 1280     \* main.js:166  the camera frame width once known

Modes == {"sensor", "slam", "hybrid"}

VARIABLES
    \* --- host page
    dom,                \* which of the three host containers exist
    cameraStream,       \* window.cameraStream is set
    \* --- lifecycle
    initPc,             \* position of the async init(): idle/awaitCamera/ready/failed
    isRunning, isReady,
    video,              \* this.video is set
    srcObject,          \* this.video.srcObject is set
    videoWidth,         \* this.video.videoWidth
    renderer,           \* this.renderer is set
    cameraPoseManager,  \* this.cameraPoseManager is set
    sensorListeners,    \* deviceorientation listener registered
    touchListeners,     \* touch-area listeners registered
    rafPending,         \* a requestAnimationFrame callback is queued
    placeTimer,         \* the 500 ms auto-placement timer is pending
    again,              \* what init calls after the first one added
    \* --- tracking
    trackingMode,
    visualOdometry,     \* this.visualOdometry: 0 (null) or an engine id
    voProc,             \* per initVisualOdometry call i, and the engine i it
                        \* constructs: unused / import / importFailed /
                        \* init / initFailed / done
    deviceOrientation, initialOrientation,
    cameraPose,         \* the transform of the render camera
    isTracking,         \* cameraPoseManager.isTracking
    cpmRef,             \* cameraPoseManager's own reference orientation
    statusText,
    nVOFrames,
    tick,               \* what the latest animate tick did (history)
    \* --- HUD overlay
    hudCube,            \* this.hudCube: the mesh, id 0 when null
    hudCubeBaseScale,
    hudVideo,           \* this.hudVideo: 0 (null) or a video id
    hudVideoTexture,    \* this.hudVideoTexture: 0 (null) or a texture id
    currentVideoSrc,
    lastAsked,          \* the source of the latest placeCube call that gave one
    videos,             \* every video element created so far
    camChildren,        \* meshes attached to the camera
    textures,           \* textures created and not disposed
    retryTimers,        \* pending 1 s play-retry timers
    nPlaced,            \* overlays created so far
    \* --- gestures
    gesture,
    touches,            \* the host's current touch list
    lastTap,            \* setupEvents' closure variable
    mouseDown,          \* setupEvents' closure variable
    now,                \* Date.now()
    innerHeight,        \* window.innerHeight
    nTouchStarts,
    seq,                \* the touch sequence in progress (history)
    taps,               \* the single-pointer taps seen so far (history)
    pinchExit,          \* the latest pinch-to-drag transition (history)
    nMouse,             \* mouse drags started and wheel notches so far
    \* --- teardown accounting (history)
    released,           \* per overlay: how often each resource was released
    trackStops, rendererDisposes, voDestroys, destroyCalls,
    tearLog,            \* the steps the latest destroy performed, in order
    uncaught,           \* exceptions no handler caught
    lastOp

lifeVars == <<again, dom, cameraStream, initPc, isRunning, isReady, video,
              srcObject,
              videoWidth, renderer, cameraPoseManager, sensorListeners,
              touchListeners, rafPending, placeTimer>>
trackVars == <<trackingMode, visualOdometry, voProc>>
sensorVars == <<deviceOrientation, initialOrientation>>
poseVars == <<cameraPose, isTracking, cpmRef, statusText, nVOFrames, tick>>
hudVars == <<hudCube, hudCubeBaseScale, hudVideo, hudVideoTexture,
             currentVideoSrc, lastAsked, videos, camChildren, textures, retryTimers,
             nPlaced, released>>
gestVars == <<gesture, touches, lastTap, mouseDown, nTouchStarts, seq, taps,
              pinchExit, nMouse>>
hostVars == <<now, innerHeight>>
tearVars == <<trackStops, rendererDisposes, voDestroys, destroyCalls,
              tearLog>>

vars == <<lifeVars, trackVars, sensorVars, poseVars, hudVars, gestVars,
          hostVars, tearVars, uncaught, lastOp>>

\* ------------------------------------------------------------- arithmetic
RECURSIVE GCD(_, _)
GCD(a, b) == IF b = 0 THEN a ELSE GCD(b, a % b)

Abs(n) == IF n < 0 THEN -n ELSE n

\* A number is a pair <<n, d>>: the rational n/d in lowest terms when d > 0,
\* +Infinity when it is <<1, 0>> and NaN when it is <<0, 0>>.
NaN == <<0, 0>>
Infinity == <<1, 0>>
IsNaN(q) == q = NaN
IsFinite(q) == q[2] > 0
Norm(n, d) ==
    IF d = 0 THEN (IF n = 0 THEN NaN ELSE Infinity)
    ELSE LET g == GCD(Abs(n), d) IN <<n \div g, d \div g>>
Rat(n) == <<n, 1>>
Less(p, q) == p[1] * q[2] < q[1] * p[2]

\* An optional value is a sequence of length 0 (null) or 1.
None == <<>>
Some(x) == <<x>>
IsNone(o) == Len(o) = 0

\* ------------------------------------------ host inputs (bounded domains)
OrientationSamples ==
    {[hasAlpha |-> FALSE, alpha |-> 0, beta |-> 10, gamma |-> 5]}
    \cup [hasAlpha : {TRUE}, alpha : {0, 90}, beta : {10}, gamma : {5}]
ScreenOrientations == {90}
VOMatrices == {1, 2}
NoResult ==
    [kind |-> "null", tracking |-> FALSE, viewMatrix |-> 1, featureCount |-> 0]
VOResults ==
    {NoResult,
     [kind |-> "result", tracking |-> FALSE, viewMatrix |-> 1,
      featureCount |-> 50]}
    \cup [kind : {"result"}, tracking : {TRUE}, viewMatrix : VOMatrices,
          featureCount : {50}]
Engines == 1..MaxVOInits
Overlays == 1..MaxPlacements
Media == {"greetgang.mp4", "singgang2.mp4"}
\* Touch points lie on one line of slope 4/3, so that every distance between
\* two of them is a whole number of pixels.
Points == {<<100, 100>>, <<103, 104>>, <<109, 112>>}
PinchPoints == {<<100, 100>>, <<103, 104>>}
ScreenHeights == {600, 1200}
\* Natural sizes a medium may report, as <<videoWidth, videoHeight>>.
VideoSizes == {<<1280, 720>>, <<720, 1280>>}
ClockStepMs == 100

\* The handler that ran last and its argument (history).
Op(name, arg) == [op |-> name, arg |-> arg]

\* --------------------------------------------------------------- initial
NoStatus == [kind |-> "none", features |-> 0, position |-> Rat(0)]
NoTick == [ran |-> FALSE, mode |-> "sensor", slam |-> FALSE, frameOn |-> 0,
           result |-> "none", sensor |-> FALSE, writes |-> <<>>,
           rendered |-> FALSE]
IdentityPose == [position |-> Rat(0),
                 orientation |-> [src |-> "identity", yaw |-> 0, pitch |-> 0,
                                  roll |-> 0, screen |-> 0]]

\* The value of hudCube's fields while this.hudCube is null.
NoCube == [id |-> 0, x |-> 0, y |-> 0, z |-> <<-3, 2>>, scale |-> Rat(1),
           width |-> <<1, 2>>, height |-> <<1, 2>>, rebuilds |-> 0]
NoVideo == [src |-> "", paused |-> TRUE, canplay |-> FALSE, meta |-> FALSE,
            play |-> "none", size |-> <<0, 0>>]
NoAgain == [inits |-> 0, chains |-> 0, sensorSets |-> 0, gestureSets |-> 0,
            timers |-> 0]
NoRelease == [mesh |-> 0, texture |-> 0, video |-> 0]
NoSeq == [active |-> FALSE, start |-> <<0, 0>>, single |-> TRUE,
          drag |-> FALSE]
NoExit == [active |-> FALSE, id |-> 0, x |-> 0, y |-> 0, px |-> 0, py |-> 0]

\* ARApp.constructor, and the page it is loaded into.
Init ==
    /\ dom \in [video : BOOLEAN, canvas : BOOLEAN, touch : BOOLEAN]
    /\ cameraStream \in BOOLEAN
    /\ initPc = "idle"
    /\ isRunning = FALSE /\ isReady = FALSE
    /\ video = FALSE /\ srcObject = FALSE /\ videoWidth = 0
    /\ renderer = FALSE /\ cameraPoseManager = FALSE
    /\ sensorListeners = FALSE /\ touchListeners = FALSE
    /\ rafPending = FALSE /\ placeTimer = FALSE
    /\ again = NoAgain
    /\ trackingMode = "sensor"
    /\ visualOdometry = 0
    /\ voProc = [i \in Engines |-> "unused"]
    /\ deviceOrientation = [alpha |-> 0, beta |-> 0, gamma |-> 0]
    /\ initialOrientation = None
    /\ cameraPose = IdentityPose
    /\ isTracking = FALSE
    /\ cpmRef = None
    /\ statusText = NoStatus
    /\ nVOFrames = 0
    /\ tick = NoTick
    /\ hudCube = NoCube
    /\ hudCubeBaseScale = Rat(1)
    /\ hudVideo = 0 /\ hudVideoTexture = 0
    /\ currentVideoSrc = "greetgang.mp4"
    /\ lastAsked = "greetgang.mp4"
    /\ videos = [i \in Overlays |-> NoVideo]
    /\ camChildren = {} /\ textures = {} /\ retryTimers = {}
    /\ nPlaced = 0
    /\ gesture = [isDragging |-> FALSE, isPinching |-> FALSE,
                  dragStartX |-> 0, dragStartY |-> 0,
                  objStartX |-> 0, objStartY |-> 0,
                  pinchStartDist |-> 0, pinchStartScale |-> Rat(1)]
    /\ touches = <<>>
    /\ lastTap = 0
    /\ mouseDown = FALSE
    /\ now = 10 * ClockStepMs
    /\ innerHeight \in ScreenHeights
    /\ nTouchStarts = 0
    /\ seq = NoSeq
    /\ taps = [last |-> -1, clean |-> TRUE]
    /\ pinchExit = NoExit
    /\ nMouse = 0
    /\ released = [i \in Overlays |-> NoRelease]
    /\ uncaught = 0
    /\ trackStops = 0 /\ rendererDisposes = 0
    /\ voDestroys = [i \in Engines |-> 0]
    /\ destroyCalls = 0
    /\ tearLog = <<>>
    /\ lastOp = Op("construct", 0)

\* ------------------------------------------- CameraPoseManager (from spec)
\* applyViewMatrix(matrix, smoothed): the decomposed position is blended
\* into the current one by the configured factor, the orientation follows
\* the matrix; the manager then reports that VO is tracking.
applyViewMatrix(pose, m, smoothed) ==
    [position |->
        IF smoothed
        THEN Norm((10 - SmoothingTenths) * pose.position[1]
                    + SmoothingTenths * m * pose.position[2],
                  10 * pose.position[2])
        ELSE Rat(m),
     orientation |-> [src |-> "vo", yaw |-> m, pitch |-> 0, roll |-> 0,
                      screen |-> 0]]

\* cameraPoseManager.isTracking after applyViewMatrix.
trackingAfterViewMatrix == TRUE

\* applyDeviceOrientation(alpha, beta, gamma, screenOrientation): yaw is the
\* azimuth delta against the manager's reference, pitch and roll are taken
\* directly (roll negated), then the screen rotation is compensated.
applyDeviceOrientation(pose, ref, o, so) ==
    [pose EXCEPT !.orientation =
        [src |-> "sensor", yaw |-> o.alpha - ref.alpha, pitch |-> o.beta,
         roll |-> -o.gamma, screen |-> -so]]

\* ------------------------------------------------------------ animate tick
SensorAppliesAlways(mode, tracking) == ~IsNone(initialOrientation)

\* ARApp.updateCameraFromSensor: does the sensor path write the camera?
SensorApplies(mode, tracking) ==
    /\ ~IsNone(initialOrientation)
    /\ ~(mode = "hybrid" /\ tracking)

InvokesSensorAlways(mode) == TRUE

\* ARApp.animate: the modes in which it calls processSLAM, and those in
\* which it calls updateCameraFromSensor.
InvokesSLAM(mode) == mode \in {"slam", "hybrid"}
InvokesSensor(mode) == mode \in {"sensor", "hybrid"}

FrameProcessedAtAnyWidth == visualOdometry # 0 /\ video

\* ARApp.processSLAM: is a frame handed to the VO engine?
FrameProcessed == visualOdometry # 0 /\ video /\ videoWidth # 0

\* What processFrame may return in this tick; it is called only when a frame
\* is processed.
FrameResults ==
    IF InvokesSLAM(trackingMode) /\ FrameProcessed
    THEN VOResults ELSE {NoResult}

\* The screen rotations the tick may read; updateCameraFromSensor reads
\* window.orientation only past its guards.
ScreenReadings ==
    IF IsNone(initialOrientation) \/ ~InvokesSensor(trackingMode)
    THEN {0} ELSE ScreenOrientations

\* One run of ARApp.animate past its isRunning guard: processSLAM, then
\* updateCameraFromSensor, then render.  res is what processFrame returns
\* and so the screen rotation the host reports.
TickFrom(pose, tracking, ref, res, so) ==
    LET mode == trackingMode
        slam == InvokesSLAM(mode)
        frame == slam /\ FrameProcessed
        voWrites == frame /\ res.kind = "result" /\ res.tracking
        pose1 == IF voWrites
                 THEN applyViewMatrix(pose, res.viewMatrix, TRUE)
                 ELSE pose
        tracking1 == IF voWrites THEN trackingAfterViewMatrix ELSE tracking
        sensor == InvokesSensor(mode)
        sensorWrites == sensor /\ SensorApplies(mode, tracking1)
        ref1 == IF sensorWrites /\ IsNone(ref)
                THEN Some(deviceOrientation) ELSE ref
        pose2 == IF sensorWrites
                 THEN applyDeviceOrientation(pose1, ref1[1],
                                             deviceOrientation, so)
                 ELSE pose1
    IN  /\ voWrites => nVOFrames < MaxVOFrames
        /\ cameraPose' = pose2
        /\ isTracking' = tracking1
        /\ cpmRef' = ref1
        /\ statusText' = IF voWrites
                         THEN [kind |-> "tracking",
                               features |-> res.featureCount,
                               position |-> pose1.position]
                         ELSE statusText
        /\ nVOFrames' = IF voWrites THEN nVOFrames + 1 ELSE nVOFrames
        /\ tick' = [ran |-> TRUE, mode |-> mode, slam |-> slam,
                    frameOn |-> IF frame THEN visualOdometry ELSE 0,
                    result |-> IF ~frame THEN "none"
                               ELSE IF res.kind = "null" THEN "null"
                               ELSE IF res.tracking THEN "tracking"
                               ELSE "lost",
                    sensor |-> sensor,
                    writes |-> (IF voWrites THEN <<"vo">> ELSE <<>>)
                               \o (IF sensorWrites THEN <<"sensor">> ELSE <<>>),
                    rendered |-> TRUE]

\* The tick on the camera and pose manager the app holds.
TickBody(res, so) == TickFrom(cameraPose, isTracking, cpmRef, res, so)

\* ARApp.animate, as the requestAnimationFrame callback.
Animate ==
    /\ rafPending
    /\ IF isRunning
       THEN /\ \E res \in FrameResults, so \in ScreenReadings :
                  TickBody(res, so)
            /\ UNCHANGED rafPending
       ELSE /\ rafPending' = FALSE
            /\ UNCHANGED poseVars
    /\ UNCHANGED <<again, dom, cameraStream, initPc, isRunning, isReady, video,
                   srcObject, videoWidth, renderer, cameraPoseManager,
                   sensorListeners, touchListeners, placeTimer>>
    /\ UNCHANGED <<trackVars, sensorVars, hudVars, gestVars, hostVars,
                   tearVars, uncaught, lastOp>>

\* ------------------------------------------------------------ HUD overlay
CleanTexturesKept == textures

\* ARApp.cleanupHud, as the values it leaves.  Its three blocks are guarded
\* separately by hudCube, hudVideoTexture and hudVideo.
CleanChildren == camChildren \ {hudCube.id}
CleanTextures == textures \ {hudVideoTexture}
CleanVideosKeepMeta ==
    IF hudVideo = 0 THEN videos
    ELSE [videos EXCEPT ![hudVideo] =
              [@ EXCEPT !.paused = TRUE, !.src = "", !.canplay = FALSE,
                        !.size = <<0, 0>>]]
\* pause() and src = '' on the current video: clearing the source restarts
\* the element's load, which drops its queued events and its dimensions.
CleanVideos ==
    IF hudVideo = 0 THEN videos
    ELSE [videos EXCEPT ![hudVideo] =
              [@ EXCEPT !.paused = TRUE, !.src = "", !.canplay = FALSE,
                        !.meta = FALSE, !.size = <<0, 0>>]]
CleanReleased ==
    [i \in Overlays |->
        [mesh |-> released[i].mesh + (IF hudCube.id = i THEN 1 ELSE 0),
         texture |-> released[i].texture
                        + (IF hudVideoTexture = i THEN 1 ELSE 0),
         video |-> released[i].video + (IF hudVideo = i THEN 1 ELSE 0)]]

cleanupHud ==
    /\ hudCube' = NoCube
    /\ hudVideoTexture' = 0
    /\ hudVideo' = 0
    /\ camChildren' = CleanChildren
    /\ textures' = CleanTextures
    /\ videos' = CleanVideos
    /\ released' = CleanReleased
    /\ UNCHANGED <<hudCubeBaseScale, currentVideoSrc, lastAsked, retryTimers, nPlaced>>

\* The media source a placement plays: the argument if there is one (it
\* also becomes currentVideoSrc), else currentVideoSrc.
PlacedSourceDefault(videoSrc) ==
    IF videoSrc # "" THEN videoSrc ELSE "greetgang.mp4"
PlacedSource(videoSrc) ==
    IF videoSrc # "" THEN videoSrc ELSE currentVideoSrc

\* ARApp.placeCube(videoSrc), videoSrc = "" standing for no argument.
placeCube(videoSrc) ==
    /\ lastAsked' = IF videoSrc # "" THEN videoSrc ELSE lastAsked
    /\ IF ~isReady
       THEN UNCHANGED <<hudCube, hudCubeBaseScale, hudVideo, hudVideoTexture,
                        currentVideoSrc, videos, camChildren, textures,
                        retryTimers, nPlaced, released>>
       ELSE
         LET src == PlacedSource(videoSrc)
             id == nPlaced + 1
         IN  /\ nPlaced < MaxPlacements
             /\ currentVideoSrc' = src
             /\ hudVideo' = id
             /\ videos' = [CleanVideos EXCEPT ![id] =
                              [src |-> src, paused |-> TRUE, canplay |-> TRUE,
                               meta |-> TRUE, play |-> "none",
                               size |-> <<0, 0>>]]
             /\ hudVideoTexture' = id
             /\ textures' = CleanTextures \cup {id}
             /\ hudCube' = [id |-> id, x |-> 0, y |-> 0, z |-> <<-3, 2>>,
                            scale |-> Rat(1), width |-> <<1, 2>>,
                            height |-> <<1, 2>>, rebuilds |-> 0]
             /\ hudCubeBaseScale' = Rat(1)
             /\ camChildren' = CleanChildren \cup {id}
             /\ released' = CleanReleased
             /\ nPlaced' = id
             /\ UNCHANGED retryTimers

\* window.changeARVideo(videoSrc): the external change-media request.
ChangeVideo ==
    /\ \E src \in Media \cup {""} : placeCube(src)
    /\ UNCHANGED <<lifeVars, trackVars, sensorVars, poseVars, gestVars,
                   hostVars, tearVars, uncaught, lastOp>>

\* The 500 ms timer set at the end of init: the first, automatic placement.
PlaceTimerFire ==
    /\ placeTimer
    /\ placeTimer' = FALSE
    /\ placeCube("")
    /\ UNCHANGED <<again, dom, cameraStream, initPc, isRunning, isReady, video,
                   srcObject, videoWidth, renderer, cameraPoseManager,
                   sensorListeners, touchListeners, rafPending>>
    /\ UNCHANGED <<trackVars, sensorVars, poseVars, gestVars, hostVars,
                   tearVars, uncaught, lastOp>>

\* The canplay listener of video i (registered once): tryPlay calls play()
\* on this.hudVideo.  A video whose source was cleared fires no canplay, so
\* this.hudVideo is video i when it runs.
VideoCanPlay(i) ==
    /\ videos[i].canplay
    /\ videos' = [videos EXCEPT ![i].canplay = FALSE,
                                ![hudVideo].play = "first"]
    /\ UNCHANGED <<hudCube, hudCubeBaseScale, hudVideo, hudVideoTexture,
                   currentVideoSrc, lastAsked, camChildren, textures, retryTimers,
                   nPlaced, released>>
    /\ UNCHANGED <<lifeVars, trackVars, sensorVars, poseVars, gestVars,
                   hostVars, tearVars, uncaught, lastOp>>

\* The promise of a play() call on video i settles.  It can resolve only
\* while the video has a source; a rejected first attempt sets the 1 s retry
\* timer, a rejected retry is swallowed.
PlaySettle(i) ==
    /\ videos[i].play # "none"
    /\ \E ok \in BOOLEAN :
          IF ok
          THEN /\ videos[i].src # ""
               /\ videos' = [videos EXCEPT ![i].play = "none",
                                           ![i].paused = FALSE]
               /\ UNCHANGED retryTimers
          ELSE /\ videos' = [videos EXCEPT ![i].play = "none"]
               /\ retryTimers' = IF videos[i].play = "first"
                                 THEN retryTimers \cup {i} ELSE retryTimers
    /\ UNCHANGED <<hudCube, hudCubeBaseScale, hudVideo, hudVideoTexture,
                   currentVideoSrc, lastAsked, camChildren, textures, nPlaced, released>>
    /\ UNCHANGED <<lifeVars, trackVars, sensorVars, poseVars, gestVars,
                   hostVars, tearVars, uncaught, lastOp>>

\* The retry timer set for video i fires: this.hudVideo.play(), which
\* throws when this.hudVideo is null by then.
RetryFire(i) ==
    /\ i \in retryTimers
    /\ retryTimers' = retryTimers \ {i}
    /\ IF hudVideo = 0
       THEN /\ uncaught' = uncaught + 1
            /\ UNCHANGED videos
       ELSE /\ videos' = [videos EXCEPT ![hudVideo].play =
                              IF @ = "none" THEN "retry" ELSE @]
            /\ UNCHANGED uncaught
    /\ UNCHANGED <<hudCube, hudCubeBaseScale, hudVideo, hudVideoTexture,
                   currentVideoSrc, lastAsked, camChildren, textures, nPlaced, released>>
    /\ UNCHANGED <<lifeVars, trackVars, sensorVars, poseVars, gestVars,
                   hostVars, tearVars, lastOp>>

\* width = height * aspect with height 0.5, aspect = videoWidth / videoHeight.
PlaneWidth(size) == Norm(size[1], 2 * size[2])

\* The loadedmetadata listener of video i, run when the dimensions of
\* video i become known: the plane of this.hudCube is rebuilt at the aspect
\* of this.hudVideo, 0.5 high; a null this.hudVideo or this.hudCube throws.
LoadedMetadata(i) ==
    /\ videos[i].meta
    /\ \E size \in VideoSizes :
          LET known == [videos EXCEPT ![i].meta = FALSE, ![i].size = size]
          IN  /\ videos' = known
              /\ IF hudVideo = 0 \/ hudCube.id = 0
                 THEN /\ uncaught' = uncaught + 1
                      /\ UNCHANGED hudCube
                 ELSE /\ hudCube' =
                            [hudCube EXCEPT
                                !.width = PlaneWidth(known[hudVideo].size),
                                !.height = <<1, 2>>,
                                !.rebuilds = @ + 1]
                      /\ UNCHANGED uncaught
    /\ UNCHANGED <<hudCubeBaseScale, hudVideo, hudVideoTexture,
                   currentVideoSrc, lastAsked, camChildren, textures, retryTimers,
                   nPlaced, released>>
    /\ UNCHANGED <<lifeVars, trackVars, sensorVars, poseVars, gestVars,
                   hostVars, tearVars, lastOp>>

\* The mousedown handler: without an overlay it places one, with one it
\* starts a mouse drag.
MouseDown(p) ==
    /\ touchListeners
    /\ IF hudCube.id = 0
       THEN /\ placeCube("")
            /\ UNCHANGED <<gesture, mouseDown, nMouse>>
       ELSE /\ nMouse < MaxMouse
            /\ nMouse' = nMouse + 1
            /\ mouseDown' = TRUE
            /\ gesture' = [gesture EXCEPT !.dragStartX = p[1],
                                          !.dragStartY = p[2],
                                          !.objStartX = hudCube.x,
                                          !.objStartY = hudCube.y]
            /\ UNCHANGED hudVars
    /\ lastOp' = Op("mousedown", IF hudCube.id = 0 THEN 1 ELSE 0)
    /\ UNCHANGED <<touches, lastTap, nTouchStarts, seq, taps, pinchExit>>
    /\ UNCHANGED <<lifeVars, trackVars, sensorVars, poseVars, hostVars,
                   tearVars, uncaught>>

\* ---------------------------------------------------------------- session
\* ARApp.init up to its first await (inside initBackgroundLayer).
\* A missing video element throws, which init catches and reports.
InitStart ==
    /\ initPc = "idle"
    /\ IF ~dom.video
       THEN /\ initPc' = "failed"
            /\ statusText' = [NoStatus EXCEPT !.kind = "initFailed"]
            /\ UNCHANGED <<video, srcObject>>
       ELSE /\ video' = TRUE
            /\ srcObject' = cameraStream
            /\ initPc' = IF cameraStream THEN "awaitPlay" ELSE "awaitStream"
            /\ UNCHANGED statusText
    /\ UNCHANGED <<again, dom, cameraStream, isRunning, isReady, videoWidth, renderer,
                   cameraPoseManager, sensorListeners, touchListeners,
                   rafPending, placeTimer>>
    /\ UNCHANGED <<cameraPose, isTracking, cpmRef, nVOFrames, tick>>
    /\ UNCHANGED <<trackVars, sensorVars, hudVars, gestVars, hostVars,
                   tearVars, uncaught, lastOp>>

\* getUserMedia settles: the stream is attached, or init fails.
InitStream ==
    /\ initPc = "awaitStream"
    /\ \E ok \in BOOLEAN :
          IF ok
          THEN /\ srcObject' = TRUE /\ cameraStream' = TRUE
               /\ initPc' = "awaitPlay"
               /\ UNCHANGED statusText
          ELSE /\ initPc' = "failed"
               /\ statusText' = [NoStatus EXCEPT !.kind = "initFailed"]
               /\ UNCHANGED <<srcObject, cameraStream>>
    /\ UNCHANGED <<again, dom, isRunning, isReady, video, videoWidth, renderer,
                   cameraPoseManager, sensorListeners, touchListeners,
                   rafPending, placeTimer>>
    /\ UNCHANGED <<cameraPose, isTracking, cpmRef, nVOFrames, tick>>
    /\ UNCHANGED <<trackVars, sensorVars, hudVars, gestVars, hostVars,
                   tearVars, uncaught, lastOp>>

\* video.play() settles and init runs to its end: initVirtualLayer (which
\* throws on a missing canvas container, after the renderer is created),
\* initSensors, setupEvents (which returns early without a touch area),
\* the flags, the placement timer and the first animate call.  The camera
\* and the pose manager it creates are new ones.
InitFinish ==
    /\ initPc = "awaitPlay"
    /\ \E ok \in BOOLEAN :
          IF ~ok
          THEN /\ initPc' = "failed"
               /\ statusText' = [NoStatus EXCEPT !.kind = "initFailed"]
               /\ UNCHANGED <<isRunning, isReady, renderer, cameraPoseManager,
                              sensorListeners, touchListeners, rafPending,
                              placeTimer>>
               /\ UNCHANGED <<cameraPose, isTracking, cpmRef, nVOFrames, tick>>
               /\ UNCHANGED camChildren
          ELSE IF ~dom.canvas
          THEN /\ initPc' = "failed"
               /\ renderer' = TRUE
               /\ statusText' = [NoStatus EXCEPT !.kind = "initFailed"]
               /\ UNCHANGED <<isRunning, isReady, cameraPoseManager,
                              sensorListeners, touchListeners, rafPending,
                              placeTimer>>
               /\ UNCHANGED <<cameraPose, isTracking, cpmRef, nVOFrames, tick>>
               /\ camChildren' = {}
          ELSE /\ initPc' = "ready"
               /\ renderer' = TRUE
               /\ cameraPoseManager' = TRUE
               /\ sensorListeners' = TRUE
               /\ touchListeners' = dom.touch
               /\ isRunning' = TRUE /\ isReady' = TRUE
               /\ placeTimer' = TRUE
               /\ rafPending' = TRUE
               /\ camChildren' = {}
               /\ \E res \in FrameResults, so \in ScreenReadings :
                     TickFrom(IdentityPose, FALSE, None, res, so)
    /\ UNCHANGED <<again, dom, cameraStream, video, srcObject, videoWidth>>
    /\ UNCHANGED <<hudCube, hudCubeBaseScale, hudVideo, hudVideoTexture,
                   currentVideoSrc, lastAsked, videos, textures, retryTimers, nPlaced,
                   released>>
    /\ UNCHANGED <<trackVars, sensorVars, gestVars, hostVars, tearVars,
                   uncaught, lastOp>>

\* The camera's frame size becomes known to the video element.
VideoSized ==
    /\ video /\ srcObject /\ videoWidth = 0
    /\ videoWidth' = FrameWidth
    /\ UNCHANGED <<again, dom, cameraStream, initPc, isRunning, isReady, video,
                   srcObject, renderer, cameraPoseManager, sensorListeners,
                   touchListeners, rafPending, placeTimer>>
    /\ UNCHANGED <<trackVars, sensorVars, poseVars, hudVars, gestVars,
                   hostVars, tearVars, uncaught, lastOp>>

\* ARApp.destroy.  Nothing in it is guarded by an earlier call.
destroy ==
    /\ destroyCalls < MaxDestroys
    /\ isRunning' = FALSE
    /\ cleanupHud
    /\ trackStops' = trackStops + (IF video /\ srcObject THEN 1 ELSE 0)
    /\ rendererDisposes' = rendererDisposes + (IF renderer THEN 1 ELSE 0)
    /\ voDestroys' = [i \in Engines |->
                        voDestroys[i] + (IF visualOdometry = i THEN 1 ELSE 0)]
    /\ destroyCalls' = destroyCalls + 1
    /\ tearLog' = <<"loop", "hud">>
                    \o (IF video /\ srcObject THEN <<"tracks">> ELSE <<>>)
                    \o (IF renderer THEN <<"renderer">> ELSE <<>>)
                    \o (IF visualOdometry # 0 THEN <<"vo">> ELSE <<>>)
    /\ UNCHANGED <<again, dom, cameraStream, initPc, isReady, video, srcObject,
                   videoWidth, renderer, cameraPoseManager, sensorListeners,
                   touchListeners, rafPending, placeTimer>>
    /\ UNCHANGED <<trackVars, sensorVars, poseVars, gestVars, hostVars,
                   uncaught, lastOp>>

\* startARApp once more: init() called again, by the permissionsGranted
\* event or the already-granted flag, after the first call has started the
\* camera preview, on a page with the canvas container.  The video is no
\* longer paused, so init awaits nothing that another event could precede,
\* and runs to its end: a new camera without children, a new renderer and
\* pose manager, one more set of sensor and gesture listeners, the flags,
\* one more placement timer and one more animate chain with its first tick.
InitAgain ==
    /\ initPc \in {"awaitPlay", "ready"}
    /\ dom.video /\ dom.canvas /\ cameraStream
    /\ again.inits + 1 < MaxStarts
    /\ video' = TRUE /\ srcObject' = TRUE
    /\ renderer' = TRUE
    /\ cameraPoseManager' = TRUE
    /\ camChildren' = {}
    /\ again' = [inits |-> again.inits + 1,
                 chains |-> again.chains + 1,
                 sensorSets |-> again.sensorSets + 1,
                 gestureSets |-> again.gestureSets
                                    + (IF dom.touch THEN 1 ELSE 0),
                 timers |-> again.timers + 1]
    /\ isRunning' = TRUE /\ isReady' = TRUE
    /\ \E res \in FrameResults, so \in ScreenReadings :
          TickFrom(IdentityPose, FALSE, None, res, so)
    /\ UNCHANGED <<dom, cameraStream, initPc, videoWidth, sensorListeners,
                   touchListeners, rafPending, placeTimer>>
    /\ UNCHANGED <<hudCube, hudCubeBaseScale, hudVideo, hudVideoTexture,
                   currentVideoSrc, lastAsked, videos, textures, retryTimers, nPlaced>>
    /\ UNCHANGED <<trackVars, sensorVars, gestVars, hostVars, tearVars,
                   released, uncaught, lastOp>>

\* ARApp.animate as the requestAnimationFrame callback of a chain that a
\* later init call started.
AnimateAgain ==
    /\ again.chains > 0
    /\ IF isRunning
       THEN /\ \E res \in FrameResults, so \in ScreenReadings :
                  TickBody(res, so)
            /\ UNCHANGED again
       ELSE /\ again' = [again EXCEPT !.chains = @ - 1]
            /\ UNCHANGED poseVars
    /\ UNCHANGED <<dom, cameraStream, initPc, isRunning, isReady, video,
                   srcObject, videoWidth, renderer, cameraPoseManager,
                   sensorListeners, touchListeners, rafPending, placeTimer>>
    /\ UNCHANGED <<trackVars, sensorVars, hudVars, gestVars, hostVars,
                   tearVars, uncaught, lastOp>>

\* The 500 ms timer of a later init call fires.
PlaceTimerAgain ==
    /\ again.timers > 0
    /\ again' = [again EXCEPT !.timers = @ - 1]
    /\ placeCube("")
    /\ UNCHANGED <<dom, cameraStream, initPc, isRunning, isReady, video,
                   srcObject, videoWidth, renderer, cameraPoseManager,
                   sensorListeners, touchListeners, rafPending, placeTimer>>
    /\ UNCHANGED <<trackVars, sensorVars, poseVars, gestVars, hostVars,
                   tearVars, uncaught, lastOp>>

\* The animate chains that are running, and the listener sets registered.
TickChains == (IF rafPending THEN 1 ELSE 0) + again.chains
SensorListenerSets == (IF sensorListeners THEN 1 ELSE 0) + again.sensorSets
GestureListenerSets == (IF touchListeners THEN 1 ELSE 0) + again.gestureSets

\* ---------------------------------------------------------------- numbers
\* a / b for whole numbers a, b >= 0, as JavaScript divides.
Div(a, b) == Norm(a, b)
Mul(p, q) ==
    IF IsNaN(p) \/ IsNaN(q) THEN NaN ELSE Norm(p[1] * q[1], p[2] * q[2])
\* Math.min and Math.max: NaN if either argument is NaN.
MathMin(p, q) ==
    IF IsNaN(p) \/ IsNaN(q) THEN NaN ELSE IF Less(q, p) THEN q ELSE p
MathMax(p, q) ==
    IF IsNaN(p) \/ IsNaN(q) THEN NaN ELSE IF Less(p, q) THEN q ELSE p
\* Math.sqrt on the squares the touch points produce.
Sqrt(n) == CHOOSE r \in 0..n : r * r = n

\* --------------------------------------------------------------- gestures
\* ARApp.getTouchDistance(touches).
getTouchDistance(t) ==
    LET dx == t[1][1] - t[2][1]
        dy == t[1][2] - t[2][2]
    IN  Sqrt(dx * dx + dy * dy)

\* Overlay positions are counted in units of 2 * 1.5 * tan(70 deg / 2) / 1200,
\* the local size of one pixel on a screen 1200 pixels high.
UnitHeight == 1200

\* ARApp.screenPixelToLocal(), in position units.
screenPixelToLocal == UnitHeight \div innerHeight

\* The clamp of the pinch handler: Math.max(0.3, Math.min(20.0, x)).
PinchClamp(x) == MathMax(<<3, 10>>, MathMin(Rat(20), x))

\* touchstart with one touch on an overlay: the drag anchor.
DragStart(g, t, cube) ==
    [g EXCEPT !.isDragging = TRUE, !.isPinching = FALSE,
              !.dragStartX = t[1], !.dragStartY = t[2],
              !.objStartX = cube.x, !.objStartY = cube.y]

PinchStartKeepsDrag(g, ts, base) ==
    [g EXCEPT !.isPinching = TRUE,
              !.pinchStartDist = getTouchDistance(ts),
              !.pinchStartScale = base]

\* touchstart with two touches on an overlay: the pinch baseline.
PinchStart(g, ts, base) ==
    [g EXCEPT !.isDragging = FALSE, !.isPinching = TRUE,
              !.pinchStartDist = getTouchDistance(ts),
              !.pinchStartScale = base]

\* The touchstart handler; ps are the touches that went down.
TouchStart(ps) ==
    /\ touchListeners
    /\ nTouchStarts < MaxTouchStarts
    /\ Len(touches) + Len(ps) <= MaxTouches
    /\ LET ts == touches \o ps
       IN  /\ touches' = ts
           /\ gesture' =
                 IF Len(ts) = 1 /\ hudCube.id # 0
                 THEN DragStart(gesture, ts[1], hudCube)
                 ELSE IF Len(ts) = 2 /\ hudCube.id # 0
                 THEN PinchStart(gesture, ts, hudCubeBaseScale)
                 ELSE gesture
           /\ seq' = IF Len(touches) = 0
                     THEN [active |-> TRUE, start |-> ts[1],
                           single |-> Len(ts) = 1,
                           drag |-> Len(ts) = 1 /\ hudCube.id # 0]
                     ELSE [seq EXCEPT !.single = FALSE]
    /\ nTouchStarts' = nTouchStarts + 1
    /\ pinchExit' = NoExit
    /\ lastOp' = Op("touchstart", Len(touches) + Len(ps))
    /\ UNCHANGED <<lastTap, mouseDown, taps, nMouse>>
    /\ UNCHANGED <<lifeVars, trackVars, sensorVars, poseVars, hudVars,
                   hostVars, tearVars, uncaught>>

DragMoveFromCurrent(cube, g, t) ==
    [cube EXCEPT !.x = cube.x + (t[1] - g.dragStartX) * screenPixelToLocal,
                 !.y = cube.y - (t[2] - g.dragStartY) * screenPixelToLocal]

\* The overlay after a one-finger move to t.
DragMove(cube, g, t) ==
    [cube EXCEPT !.x = g.objStartX + (t[1] - g.dragStartX) * screenPixelToLocal,
                 !.y = g.objStartY - (t[2] - g.dragStartY) * screenPixelToLocal]

\* The scale after a two-finger move to ts.
PinchScale(g, ts) ==
    PinchClamp(Mul(g.pinchStartScale,
                   Div(getTouchDistance(ts), g.pinchStartDist)))

\* The touchmove handler; ts is the touch list after the move.
TouchMove(ts) ==
    /\ touchListeners
    /\ Len(ts) = Len(touches) /\ ts # touches
    /\ touches' = ts
    /\ IF hudCube.id = 0
       THEN UNCHANGED <<hudCube, hudCubeBaseScale>>
       ELSE IF gesture.isDragging /\ Len(ts) = 1
       THEN /\ hudCube' = DragMove(hudCube, gesture, ts[1])
            /\ UNCHANGED hudCubeBaseScale
       ELSE IF gesture.isPinching /\ Len(ts) = 2
       THEN /\ hudCubeBaseScale' = PinchScale(gesture, ts)
            /\ hudCube' = [hudCube EXCEPT !.scale = PinchScale(gesture, ts)]
       ELSE UNCHANGED <<hudCube, hudCubeBaseScale>>
    /\ lastOp' = Op("touchmove", Len(ts))
    /\ UNCHANGED <<gesture, lastTap, mouseDown, nTouchStarts, seq, taps,
                   pinchExit, nMouse>>
    /\ UNCHANGED <<hudVideo, hudVideoTexture, currentVideoSrc, lastAsked, videos,
                   camChildren, textures, retryTimers, nPlaced, released>>
    /\ UNCHANGED <<lifeVars, trackVars, sensorVars, poseVars, hostVars,
                   tearVars, uncaught>>

\* The touches of ts whose index is not in S.
RECURSIVE Remaining(_, _, _)
Remaining(ts, S, k) ==
    IF k > Len(ts) THEN <<>>
    ELSE (IF k \in S THEN <<>> ELSE <<ts[k]>>) \o Remaining(ts, S, k + 1)

Lowest(S) == CHOOSE k \in S : \A j \in S : k <= j

\* dx < 10 && dy < 10 of the touchend handler.
IsTap(g, t) ==
    Abs(t[1] - g.dragStartX) < TapSlop /\ Abs(t[2] - g.dragStartY) < TapSlop

IsDoubleTapWithin(t, last) == t - last <= DoubleTapMs

\* now - lastTap < 300 of the touchend handler.
IsDoubleTap(t, last) == t - last < DoubleTapMs

ReanchorKeepsObject(g, t, cube) ==
    [g EXCEPT !.isPinching = FALSE, !.isDragging = TRUE,
              !.dragStartX = t[1], !.dragStartY = t[2]]

\* touchend with one touch left: the drag is anchored again, at the touch
\* that remains and the overlay's position now (0, 0 without an overlay).
Reanchor(g, t, cube) ==
    [g EXCEPT !.isPinching = FALSE, !.isDragging = TRUE,
              !.dragStartX = t[1], !.dragStartY = t[2],
              !.objStartX = IF cube.id # 0 THEN cube.x ELSE 0,
              !.objStartY = IF cube.id # 0 THEN cube.y ELSE 0]

\* The touchend handler; S are the indices of the touches lifted, the
\* lowest of them being changedTouches[0].
TouchEnd(S) ==
    /\ touchListeners
    /\ S # {} /\ S \subseteq 1..Len(touches)
    /\ LET rest == Remaining(touches, S, 1)
           changed == touches[Lowest(S)]
           tapped == /\ Len(rest) = 0
                     /\ gesture.isDragging /\ ~gesture.isPinching
                     /\ IsTap(gesture, changed)
           places == tapped /\ IsDoubleTap(now, lastTap)
           claimTap == /\ seq.single /\ seq.drag
                       /\ Abs(changed[1] - seq.start[1]) < TapSlop
                       /\ Abs(changed[2] - seq.start[2]) < TapSlop
       IN  /\ touches' = rest
           /\ IF places THEN placeCube("") ELSE UNCHANGED hudVars
           /\ lastTap' = IF tapped THEN now ELSE lastTap
           /\ gesture' =
                 IF Len(rest) = 0
                 THEN [gesture EXCEPT !.isDragging = FALSE,
                                      !.isPinching = FALSE]
                 ELSE IF Len(rest) = 1
                 THEN Reanchor(gesture, rest[1], hudCube)
                 ELSE gesture
           /\ seq' = IF Len(rest) = 0 THEN NoSeq ELSE seq
           /\ taps' = IF Len(rest) # 0 THEN taps
                      ELSE IF ~seq.single THEN [taps EXCEPT !.clean = FALSE]
                      ELSE IF claimTap THEN [last |-> now, clean |-> TRUE]
                      ELSE taps
           /\ pinchExit' =
                 IF Len(rest) = 1 /\ gesture.isPinching /\ hudCube.id # 0
                 THEN [active |-> TRUE, id |-> hudCube.id, x |-> hudCube.x,
                       y |-> hudCube.y, px |-> rest[1][1], py |-> rest[1][2]]
                 ELSE NoExit
           /\ lastOp' = Op("touchend",
                           IF places THEN 2 ELSE IF tapped THEN 1 ELSE 0)
    /\ UNCHANGED <<mouseDown, nTouchStarts, nMouse>>
    /\ UNCHANGED <<lifeVars, trackVars, sensorVars, poseVars, hostVars,
                   tearVars, uncaught>>

\* ------------------------------------------------------------------- host
\* Time passes.
AdvanceClock ==
    /\ now < (10 + MaxClock) * ClockStepMs
    /\ now' = now + ClockStepMs
    /\ UNCHANGED innerHeight
    /\ UNCHANGED <<lifeVars, trackVars, sensorVars, poseVars, hudVars,
                   gestVars, tearVars, uncaught, lastOp>>

ResizeResetsPose ==
    /\ \E h \in ScreenHeights : h # innerHeight /\ innerHeight' = h
    /\ cameraPose' = IdentityPose
    /\ UNCHANGED now
    /\ UNCHANGED <<isTracking, cpmRef, statusText, nVOFrames, tick>>
    /\ UNCHANGED <<lifeVars, trackVars, sensorVars, hudVars, gestVars,
                   tearVars, uncaught, lastOp>>

\* The window is resized (ARApp.onResize touches only the projection and
\* the renderer size).
Resize ==
    /\ \E h \in ScreenHeights : h # innerHeight /\ innerHeight' = h
    /\ UNCHANGED now
    /\ UNCHANGED <<lifeVars, trackVars, sensorVars, poseVars, hudVars,
                   gestVars, tearVars, uncaught, lastOp>>

\* The mousemove handler: while the button is down the overlay follows the
\* pointer from the anchor mousedown took.
MouseMove(p) ==
    /\ touchListeners
    /\ IF ~mouseDown \/ hudCube.id = 0
       THEN UNCHANGED hudCube
       ELSE hudCube' = DragMove(hudCube, gesture, p)
    /\ lastOp' = Op("mousemove", IF mouseDown /\ hudCube.id # 0 THEN 1 ELSE 0)
    /\ UNCHANGED <<hudCubeBaseScale, hudVideo, hudVideoTexture,
                   currentVideoSrc, lastAsked, videos, camChildren, textures,
                   retryTimers, nPlaced, released>>
    /\ UNCHANGED <<lifeVars, trackVars, sensorVars, poseVars, gestVars,
                   hostVars, tearVars, uncaught>>

\* The mouseup and mouseleave handlers.
MouseUp ==
    /\ touchListeners
    /\ mouseDown' = FALSE
    /\ lastOp' = Op("mouseup", 0)
    /\ UNCHANGED <<gesture, touches, lastTap, nTouchStarts, seq, taps,
                   pinchExit, nMouse>>
    /\ UNCHANGED <<lifeVars, trackVars, sensorVars, poseVars, hudVars,
                   hostVars, tearVars, uncaught>>

\* The scale after one wheel notch: times 0.9 for deltaY > 0, else times
\* 1.1, clamped to [0.3, 5.0].
WheelScale(base, down) ==
    MathMax(<<3, 10>>,
            MathMin(Rat(5), Mul(base, IF down THEN <<9, 10>> ELSE <<11, 10>>)))

\* The wheel handler.
Wheel(down) ==
    /\ touchListeners
    /\ IF hudCube.id = 0
       THEN UNCHANGED <<hudCube, hudCubeBaseScale, nMouse>>
       ELSE /\ nMouse < MaxMouse
            /\ nMouse' = nMouse + 1
            /\ hudCubeBaseScale' = WheelScale(hudCubeBaseScale, down)
            /\ hudCube' = [hudCube EXCEPT
                              !.scale = WheelScale(hudCubeBaseScale, down)]
    /\ lastOp' = Op("wheel", IF hudCube.id # 0 THEN 1 ELSE 0)
    /\ UNCHANGED <<gesture, touches, lastTap, mouseDown, nTouchStarts, seq,
                   taps, pinchExit>>
    /\ UNCHANGED <<hudVideo, hudVideoTexture, currentVideoSrc, lastAsked, videos,
                   camChildren, textures, retryTimers, nPlaced, released>>
    /\ UNCHANGED <<lifeVars, trackVars, sensorVars, poseVars, hostVars,
                   tearVars, uncaught>>

\* ----------------------------------------------------------- tracking mode
\* The initVisualOdometry call a setTrackingMode starts: the next unused one.
NextProc == CHOOSE i \in Engines :
                /\ voProc[i] = "unused"
                /\ \A j \in Engines : voProc[j] = "unused" => i <= j

\* ARApp.setTrackingMode(mode), with initVisualOdometry up to its first
\* await (the dynamic import).
StartsInit(mode) == mode \in {"slam", "hybrid"} /\ visualOdometry = 0

setTrackingMode(mode) ==
    /\ trackingMode' = mode
    /\ IF StartsInit(mode)
       THEN /\ \E i \in Engines : voProc[i] = "unused"
            /\ voProc' = [voProc EXCEPT ![NextProc] = "import"]
       ELSE UNCHANGED voProc
    /\ UNCHANGED visualOdometry
    /\ UNCHANGED <<lifeVars, sensorVars, poseVars, hudVars, gestVars,
                   hostVars, tearVars, uncaught, lastOp>>

\* initVisualOdometry after the import resolved: the engine is constructed
\* and stored, and its init is awaited.
VOImportResolve(i) ==
    /\ voProc[i] = "import"
    /\ visualOdometry' = i
    /\ voProc' = [voProc EXCEPT ![i] = "init"]
    /\ UNCHANGED trackingMode
    /\ UNCHANGED <<lifeVars, sensorVars, poseVars, hudVars, gestVars,
                   hostVars, tearVars, uncaught, lastOp>>

\* The catch block of initVisualOdometry.
voInitCatch == trackingMode' = "sensor"

\* initVisualOdometry when the import rejected.
VOImportReject(i) ==
    /\ voProc[i] = "import"
    /\ voInitCatch
    /\ voProc' = [voProc EXCEPT ![i] = "importFailed"]
    /\ UNCHANGED visualOdometry
    /\ UNCHANGED <<lifeVars, sensorVars, poseVars, hudVars, gestVars,
                   hostVars, tearVars, uncaught, lastOp>>

\* What initVisualOdometry stores as the mode once the engine is ready.
voInitMode == "hybrid"

\* initVisualOdometry after visualOdometry.init resolved.
VOInitResolve(i) ==
    /\ voProc[i] = "init"
    /\ trackingMode' = voInitMode
    /\ voProc' = [voProc EXCEPT ![i] = "done"]
    /\ UNCHANGED visualOdometry
    /\ UNCHANGED <<lifeVars, sensorVars, poseVars, hudVars, gestVars,
                   hostVars, tearVars, uncaught, lastOp>>

\* The engine reference initVisualOdometry leaves when init rejected: the
\* catch block does not touch this.visualOdometry.
voAfterReject == visualOdometry

\* initVisualOdometry after visualOdometry.init rejected.
VOInitReject(i) ==
    /\ voProc[i] = "init"
    /\ voInitCatch
    /\ visualOdometry' = voAfterReject
    /\ voProc' = [voProc EXCEPT ![i] = "initFailed"]
    /\ UNCHANGED <<lifeVars, sensorVars, poseVars, hudVars, gestVars,
                   hostVars, tearVars, uncaught, lastOp>>

\* ------------------------------------------------------------------ sensor
RefOverwritten(e) ==
    Some([alpha |-> e.alpha, beta |-> e.beta, gamma |-> e.gamma])

\* The reference ARApp.onDeviceOrientation leaves.
RefAfterSample(e) ==
    IF IsNone(initialOrientation)
    THEN Some([alpha |-> e.alpha, beta |-> e.beta, gamma |-> e.gamma])
    ELSE initialOrientation

onDeviceOrientationUnguarded(e) ==
    /\ sensorListeners
    /\ deviceOrientation' =
          [alpha |-> e.alpha, beta |-> e.beta, gamma |-> e.gamma]
    /\ initialOrientation' = RefAfterSample(e)
    /\ UNCHANGED <<lifeVars, trackVars, poseVars, hudVars, gestVars, hostVars,
                   tearVars, uncaught, lastOp>>

\* ARApp.onDeviceOrientation(event).
onDeviceOrientation(e) ==
    /\ sensorListeners
    /\ IF ~e.hasAlpha
       THEN UNCHANGED sensorVars
       ELSE /\ deviceOrientation' =
                   [alpha |-> e.alpha, beta |-> e.beta, gamma |-> e.gamma]
            /\ initialOrientation' = RefAfterSample(e)
    /\ UNCHANGED <<lifeVars, trackVars, poseVars, hudVars, gestVars, hostVars,
                   tearVars, uncaught, lastOp>>

\* ARApp.resetPose: CameraPoseManager.reset (from the specification: the
\* reference and the smoothing state are cleared), the engine's reset, and
\* the app's own reference.
resetPose ==
    /\ IF cameraPoseManager
       THEN /\ cpmRef' = None
            /\ isTracking' = FALSE
            /\ cameraPose' = IdentityPose
       ELSE UNCHANGED <<cpmRef, isTracking, cameraPose>>
    /\ initialOrientation' = None
    /\ UNCHANGED <<deviceOrientation, statusText, nVOFrames, tick>>
    /\ UNCHANGED <<lifeVars, trackVars, hudVars, gestVars, hostVars,
                   tearVars, uncaught, lastOp>>

\* ------------------------------------------------------------------ specs
\* A page that holds all three containers and whose permission flow has
\* already opened the camera stream.
InitPage ==
    /\ Init
    /\ dom = [video |-> TRUE, canvas |-> TRUE, touch |-> TRUE]
    /\ cameraStream
    /\ innerHeight = 600

\* The initVisualOdometry calls made so far.
InitsStarted == Cardinality({i \in Engines : voProc[i] # "unused"})

\* Tracking: session start, mode switches, the asynchronous VO
\* initialisation (MaxTrackInits calls of it), sensor samples, pose resets
\* and animate ticks.
NextTrack ==
    \/ InitStart
    \/ InitFinish
    \/ VideoSized
    \/ Animate
    \/ \E mode \in Modes :
          setTrackingMode(mode) /\ InitsStarted' <= MaxTrackInits
    \/ \E i \in Engines : VOImportResolve(i)
    \/ \E i \in Engines : VOImportReject(i)
    \/ \E i \in Engines : VOInitResolve(i)
    \/ \E i \in Engines : VOInitReject(i)
    \/ \E e \in OrientationSamples : onDeviceOrientation(e)
    \/ resetPose

SpecTrack == InitPage /\ [][NextTrack]_vars

\* Teardown: session start on any page, the first placement, mode switches
\* with the VO initialisation, and destroy.
NextTeardown ==
    \/ InitStart
    \/ InitStream
    \/ InitFinish
    \/ PlaceTimerFire
    \/ Animate
    \/ \E mode \in Modes :
          setTrackingMode(mode) /\ InitsStarted' <= MaxTrackInits
    \/ \E i \in Engines : VOImportResolve(i)
    \/ \E i \in Engines : VOInitResolve(i)
    \/ \E i \in Engines : VOInitReject(i)
    \/ destroy

SpecTeardown == Init /\ [][NextTeardown]_vars

\* Mode switches and pose resets: repeated requests, with every VO
\* initialisation they start running concurrently.
NextModes ==
    \/ InitStart
    \/ InitFinish
    \/ Animate
    \/ \E mode \in Modes : setTrackingMode(mode)
    \/ \E i \in Engines : VOImportResolve(i)
    \/ \E i \in Engines : VOImportReject(i)
    \/ \E i \in Engines : VOInitResolve(i)
    \/ \E i \in Engines : VOInitReject(i)
    \/ \E e \in OrientationSamples : onDeviceOrientation(e)
    \/ resetPose

SpecModes == InitPage /\ [][NextModes]_vars

\* Gestures: a ready session on a page with all containers, the touch
\* handlers, placements by double tap and window resizes.
NewTouches == {<<p>> : p \in Points} \cup {<<p, q>> : p, q \in Points}
TouchLists == UNION {[1..n -> Points] : n \in 1..MaxTouches}
\* The touches of the pinch and drag sessions lie on two points.
PinchStarts ==
    {<<p>> : p \in PinchPoints} \cup {<<p, q>> : p, q \in PinchPoints}
PinchLists == UNION {[1..n -> PinchPoints] : n \in 1..MaxTouches}

NextGesture ==
    \/ InitStart
    \/ InitFinish
    \/ PlaceTimerFire
    \/ \E ps \in PinchStarts : TouchStart(ps)
    \/ \E ts \in PinchLists : TouchMove(ts)
    \/ \E S \in SUBSET (1..MaxTouches) : TouchEnd(S)
    \/ Resize

SpecGesture == InitPage /\ [][NextGesture]_vars

\* Taps: the same session with the clock running; fingers come down one
\* at a time.
NextTap ==
    \/ InitStart
    \/ InitFinish
    \/ PlaceTimerFire
    \/ \E p \in Points : TouchStart(<<p>>)
    \/ \E ts \in TouchLists : TouchMove(ts)
    \/ \E S \in SUBSET (1..MaxTouches) : TouchEnd(S)
    \/ AdvanceClock

SpecTap == InitPage /\ [][NextTap]_vars

\* Overlay lifecycle: placements from every caller, the video callbacks
\* and destroy.
NextHud ==
    \/ InitStart
    \/ InitFinish
    \/ PlaceTimerFire
    \/ ChangeVideo
    \/ \E p \in Points : MouseDown(p)
    \/ \E i \in Overlays : VideoCanPlay(i)
    \/ \E i \in Overlays : PlaySettle(i)
    \/ \E i \in Overlays : RetryFire(i)
    \/ \E i \in Overlays : LoadedMetadata(i)
    \/ destroy

SpecHud == InitPage /\ [][NextHud]_vars

\* An initVisualOdometry call is awaiting its import or the engine's init.
InitInFlight == \E i \in Engines : voProc[i] \in {"import", "init"}

\* Where the pointer of the frame sessions goes down, and where it moves.
PressPoint == <<100, 100>>
DragPoint == <<103, 104>>

\* Start signals: init called by the already-granted flag and again by the
\* permissionsGranted event, with the tick chains, timers and sensor events
\* that follow, and destroy.
NextStart ==
    \/ InitStart
    \/ InitFinish
    \/ InitAgain
    \/ VideoSized
    \/ Animate
    \/ AnimateAgain
    \/ PlaceTimerFire
    \/ PlaceTimerAgain
    \/ \E e \in OrientationSamples : onDeviceOrientation(e)
    \/ destroy

SpecStart == InitPage /\ [][NextStart]_vars

\* The whole frame: the tick loop with the sensor pose, mode requests and
\* pose resets, next to the handlers that place, move and scale the overlay.
\* A session's pointer is one finger or the mouse, not both; the window is
\* resized before the pointer is used; a mode request is made while no
\* initialisation is in flight.
NextFrame ==
    \/ InitStart
    \/ InitFinish
    \/ Animate
    \/ \E mode \in Modes : ~InitInFlight /\ setTrackingMode(mode)
    \/ \E e \in OrientationSamples : onDeviceOrientation(e)
    \/ resetPose
    \/ PlaceTimerFire
    \/ nMouse = 0 /\ TouchStart(<<PressPoint>>)
    \/ TouchMove(<<DragPoint>>)
    \/ TouchEnd({1})
    \/ nTouchStarts = 0 /\ MouseDown(PressPoint)
    \/ MouseMove(DragPoint)
    \/ MouseUp
    \/ nTouchStarts = 0 /\ \E down \in BOOLEAN : Wheel(down)
    \/ nTouchStarts = 0 /\ nMouse = 0 /\ Resize

SpecFrame == InitPage /\ [][NextFrame]_vars

\* ----------------------------------------------------------------- claims
\* A step in which ARApp.animate ran past its isRunning guard.
TickStep ==
    \/ isRunning /\ UNCHANGED <<trackVars, sensorVars>> /\ Animate
    \/ initPc' # initPc /\ isRunning' /\ InitFinish

\* C1: in a hybrid tick whose VO result has tracking = true only
\* applyViewMatrix writes the camera, so the pose after the tick is the
\* smoothed VO pose; and in no tick of any mode do both applyViewMatrix and
\* applyDeviceOrientation write the camera.
C1_OneWritePerTick ==
    [][TickStep =>
        /\ Len(tick'.writes) <= 1
        /\ (tick'.mode = "hybrid" /\ tick'.result = "tracking") =>
              /\ tick'.writes = <<"vo">>
              /\ \E m \in VOMatrices :
                    cameraPose' = applyViewMatrix(cameraPose, m, TRUE)]_vars

C1_Witness ==
    /\ tick.ran /\ tick.mode = "hybrid" /\ tick.result = "tracking"
    /\ tick.writes = <<"vo">>
    /\ ~IsNone(initialOrientation)
    /\ cameraPose.orientation.src = "vo"

\* C2: when VO initialisation fails (the import or the engine's init
\* rejects) the mode is 'sensor' and the engine the failed call constructed
\* is not retained in this.visualOdometry.
C2_FailureLeavesNoEngine ==
    [][\A i \in Engines :
          (VOImportReject(i) \/ VOInitReject(i)) =>
              trackingMode' = "sensor" /\ visualOdometry' # i]_vars

\* C3: the tracking mode changes only in a setTrackingMode step or in the
\* fallback to 'sensor' of a failed VO initialisation.
C3_ModeChangesOnlyOnRequest ==
    [][trackingMode' # trackingMode =>
          \/ \E mode \in Modes : setTrackingMode(mode)
          \/ \E i \in Engines : VOImportReject(i) \/ VOInitReject(i)]_vars

\* C4: at most one overlay exists: mesh, texture and video are all null or
\* all those of the latest placement, and nothing of an earlier placement
\* is still attached, undisposed or playing.
C4_OneOverlay ==
    /\ \/ hudCube.id = 0 /\ hudVideoTexture = 0 /\ hudVideo = 0
       \/ /\ hudCube.id = nPlaced /\ hudVideoTexture = nPlaced
          /\ hudVideo = nPlaced /\ nPlaced # 0
    /\ camChildren = {hudCube.id} \ {0}
    /\ textures = {hudVideoTexture} \ {0}
    /\ \A i \in Overlays :
          i # hudVideo => videos[i].src = "" /\ videos[i].paused
    /\ \A i \in Overlays :
          released[i].mesh <= 1 /\ released[i].texture <= 1
              /\ released[i].video <= 1

C4_Witness ==
    /\ nPlaced = 2 /\ hudCube.id = 2
    /\ released[1] = [mesh |-> 1, texture |-> 1, video |-> 1]
    /\ ~videos[2].paused

A_TouchStart == \E ps \in NewTouches : TouchStart(ps)
A_TouchMove == \E ts \in TouchLists : TouchMove(ts)
A_TouchEnd == \E S \in SUBSET (1..MaxTouches) : TouchEnd(S)

\* C5: never are isDragging and isPinching both true, and a touchstart that
\* brings the touch count to two while dragging an overlay leaves
\* isPinching true and isDragging false.
C5_DragXorPinch ==
    [][/\ ~(gesture'.isDragging /\ gesture'.isPinching)
       /\ (Len(touches') = 2 /\ gesture.isDragging /\ hudCube.id # 0
              /\ A_TouchStart) =>
             gesture'.isPinching /\ ~gesture'.isDragging]_vars

C5_Witness ==
    /\ lastOp = Op("touchstart", 2)
    /\ seq.drag /\ ~seq.single
    /\ gesture.isPinching /\ ~gesture.isDragging

\* C6: when one of two touches ends while pinching, the overlay does not
\* move, the state becomes dragging with the anchor taken from the touch
\* that remains and the overlay's position now; a following move of that
\* touch by (dx, dy) puts the overlay at its position at the transition
\* plus (dx k, -dy k).
C6_PinchToDrag ==
    [][/\ (gesture.isPinching /\ Len(touches') = 1 /\ hudCube.id # 0
              /\ A_TouchEnd) =>
             /\ hudCube' = hudCube
             /\ gesture'.isDragging /\ ~gesture'.isPinching
             /\ gesture'.dragStartX = touches'[1][1]
             /\ gesture'.dragStartY = touches'[1][2]
             /\ gesture'.objStartX = hudCube.x
             /\ gesture'.objStartY = hudCube.y
       /\ (pinchExit.active /\ hudCube.id = pinchExit.id /\ A_TouchMove) =>
             /\ hudCube'.x = pinchExit.x
                    + (touches'[1][1] - pinchExit.px) * screenPixelToLocal
             /\ hudCube'.y = pinchExit.y
                    - (touches'[1][2] - pinchExit.py) * screenPixelToLocal]_vars

C6_Witness ==
    /\ pinchExit.active /\ hudCube.id = pinchExit.id
    /\ lastOp = Op("touchmove", 1)
    /\ pinchExit.x # 0
    /\ hudCube.x # pinchExit.x

\* C7: the touchend of a single-pointer tap (a drag that ends less than
\* 10 px from its start in both axes) places an overlay exactly when the
\* previous such tap ended less than 300 ms earlier; a single-pointer drag
\* of 10 px or more in an axis places nothing and is no previous tap.
C7_DoubleTap ==
    [][(Len(touches') = 0 /\ seq.single /\ seq.drag /\ A_TouchEnd) =>
          LET t == touches[1]
              tap == /\ Abs(t[1] - seq.start[1]) < TapSlop
                     /\ Abs(t[2] - seq.start[2]) < TapSlop
              placed == nPlaced' = nPlaced + 1
          IN  /\ (tap /\ taps.clean) =>
                    (placed <=> (taps.last >= 0
                                    /\ now - taps.last < DoubleTapMs))
              /\ ~tap => (~placed /\ taps' = taps)]_vars

C7_Witness ==
    /\ lastOp = Op("touchend", 2)
    /\ taps.clean /\ taps.last = now
    /\ hudCube.id = 2

\* C8: after any sequence of touch events the overlay scale and
\* hudCubeBaseScale are numbers within [0.3, 20.0].
InScaleRange(q) ==
    IsFinite(q) /\ ~Less(q, <<3, 10>>) /\ ~Less(Rat(20), q)

C8_ScaleInRange ==
    /\ InScaleRange(hudCubeBaseScale)
    /\ hudCube.id # 0 => InScaleRange(hudCube.scale)

\* C9: the reference orientation is set by the first sample with a
\* non-null alpha, is changed by no later sample, is cleared by resetPose
\* and then set again by the next non-null sample.
C9_ReferenceOncePerReset ==
    [][/\ \A e \in OrientationSamples :
             (e.hasAlpha /\ IsNone(initialOrientation)
                 /\ onDeviceOrientation(e)) =>
                 initialOrientation' =
                     Some([alpha |-> e.alpha, beta |-> e.beta,
                           gamma |-> e.gamma])
       /\ ~IsNone(initialOrientation) =>
             \/ initialOrientation' = initialOrientation
             \/ resetPose
       /\ IsNone(initialOrientation') \/ ~resetPose
       /\ (IsNone(initialOrientation) /\ ~IsNone(initialOrientation')) =>
             \E e \in OrientationSamples :
                 e.hasAlpha /\ onDeviceOrientation(e)]_vars

C9_Witness ==
    /\ ~IsNone(initialOrientation)
    /\ deviceOrientation # initialOrientation[1]

\* C10: across two destroy calls every resource is released at most once.
C10_ReleasedAtMostOnce ==
    /\ trackStops <= 1
    /\ rendererDisposes <= 1
    /\ \A i \in Engines : voDestroys[i] <= 1
    /\ \A i \in Overlays :
          released[i].mesh <= 1 /\ released[i].texture <= 1
              /\ released[i].video <= 1

\* C11: destroy stops the tick loop, releases the overlay, stops the camera
\* tracks, disposes the renderer and destroys the VO engine, in this order
\* and each of them whenever the resource exists; and once destroy has run,
\* no animate tick updates the pose or renders.
TeardownOrder == <<"loop", "hud", "tracks", "renderer", "vo">>

InTeardownOrder(log) ==
    \A i, j \in 1..Len(log) :
        i < j => \E a, b \in 1..Len(TeardownOrder) :
                    a < b /\ TeardownOrder[a] = log[i]
                          /\ TeardownOrder[b] = log[j]

Logged(log, step) == \E i \in 1..Len(log) : log[i] = step

C11_TeardownInOrder ==
    [][/\ destroy =>
             /\ ~isRunning'
             /\ InTeardownOrder(tearLog')
             /\ Logged(tearLog', "loop") /\ Logged(tearLog', "hud")
             /\ hudCube'.id = 0 /\ hudVideo' = 0 /\ hudVideoTexture' = 0
             /\ (video /\ srcObject) =>
                    Logged(tearLog', "tracks") /\ trackStops' > trackStops
             /\ renderer =>
                    Logged(tearLog', "renderer")
                        /\ rendererDisposes' > rendererDisposes
             /\ visualOdometry # 0 =>
                    Logged(tearLog', "vo")
                        /\ voDestroys'[visualOdometry]
                               > voDestroys[visualOdometry]
       /\ destroyCalls > 0 => ~TickStep]_vars

\* The state resetPose leaves: no reference orientation, and the pose
\* manager back at the identity pose.
PoseIsReset ==
    /\ IsNone(initialOrientation)
    /\ cameraPoseManager =>
          IsNone(cpmRef) /\ ~isTracking /\ cameraPose = IdentityPose

\* C12: setTrackingMode(m) issued again while the mode is m and a VO
\* initialisation is in flight changes nothing, so that at most one
\* initialisation is in flight and one engine is created; and resetPose
\* leaves a state in which a second resetPose changes nothing.
C12_RequestsIdempotent ==
    [][/\ \A m \in Modes :
             (trackingMode = m /\ InitInFlight /\ setTrackingMode(m)) =>
                 UNCHANGED vars
       /\ Cardinality({i \in Engines : voProc'[i] \in {"import", "init"}})
              <= 1
       /\ resetPose => PoseIsReset'
       /\ (PoseIsReset /\ resetPose) => UNCHANGED vars]_vars

\* C13: a missing host container never aborts init: without the
\* 'video-background' element init does not end in its failure branch, and
\* whenever init gets as far as creating the renderer (the camera preview is
\* playing) it reaches the running and ready state, whether or not the
\* 'canvas-container' and 'touch-area' elements exist; without the touch
\* area only the gesture listeners are missing.
C13_MissingContainerDegrades ==
    [][/\ (~dom.video /\ InitStart) => initPc' # "failed"
       /\ (renderer' /\ InitFinish) =>
             /\ initPc' = "ready" /\ isRunning' /\ isReady'
             /\ touchListeners' = dom.touch]_vars

\* C14: the retry of a rejected overlay autoplay is harmless under every
\* interleaving with placeCube, cleanupHud and destroy: when the 1 s timer
\* set for overlay i fires it raises no error and calls play() on no overlay
\* other than i; a rejected first attempt sets the timer once, and a
\* rejected retry sets none and leaves the video paused.
C14_RetryHarmless ==
    [][\A i \in Overlays :
          /\ (i \in retryTimers /\ RetryFire(i)) =>
                /\ uncaught' = uncaught
                /\ \A j \in Overlays \ {i} : videos'[j].play = videos[j].play
          /\ (videos[i].play = "retry" /\ PlaySettle(i) /\ videos'[i].paused)
                => (retryTimers' = retryTimers /\ videos'[i].play = "none")
      ]_vars

\* C15: an overlay's plane is the default 0.5 x 0.5 square from placement
\* until its own video's metadata is known, and is rebuilt once, then, to
\* width 0.5 * videoWidth / videoHeight and height 0.5.  The loadedmetadata
\* callback of video i runs only while overlay i is the current one: it
\* rebuilds overlay i, with the dimensions of video i, raises no error, and
\* no overlay is ever rebuilt twice.
C15_RebuiltOnceOnOwnMetadata ==
    [][/\ \A i \in Overlays :
             (videos[i].meta /\ LoadedMetadata(i)) =>
                /\ hudVideo = i /\ hudCube.id = i /\ hudCube'.id = i
                /\ hudCube.width = <<1, 2>> /\ hudCube.height = <<1, 2>>
                /\ hudCube'.width = PlaneWidth(videos'[i].size)
                /\ hudCube'.height = <<1, 2>>
                /\ hudCube'.rebuilds = 1
                /\ uncaught' = uncaught
       /\ (nPlaced' # nPlaced) =>
             /\ hudCube'.id = nPlaced' /\ hudCube'.rebuilds = 0
             /\ hudCube'.width = <<1, 2>> /\ hudCube'.height = <<1, 2>>
       /\ (hudCube'.id = hudCube.id /\ hudCube'.width # hudCube.width) =>
             \E i \in Overlays : LoadedMetadata(i)
      ]_vars

\* The second overlay, placed over a first one whose metadata was still
\* unknown, has been rebuilt to a portrait plane.
C15_Witness ==
    /\ nPlaced = 2 /\ hudCube.id = 2 /\ hudCube.rebuilds = 1
    /\ hudCube.width = <<9, 32>> /\ videos[2].size = <<720, 1280>>
    /\ videos[1].size = <<0, 0>> /\ ~videos[1].meta

\* C16: the camera pose changes only in an animate tick or in resetPose:
\* the touch, mouse and wheel handlers, setTrackingMode, the placements and
\* the resize handler leave it as it was.
C16_PoseWrittenOnlyByTickOrReset ==
    [][/\ cameraPose' # cameraPose => (TickStep \/ resetPose)
       /\ (\/ touches' # touches /\ (A_TouchStart \/ A_TouchMove \/ A_TouchEnd)
           \/ lastOp' # lastOp /\ \E p \in Points : MouseDown(p) \/ MouseMove(p)
           \/ mouseDown /\ MouseUp
           \/ nMouse' # nMouse /\ \E down \in BOOLEAN : Wheel(down)
           \/ trackVars' # trackVars /\ \E mode \in Modes : setTrackingMode(mode)
           \/ nPlaced' # nPlaced /\ (PlaceTimerFire \/ ChangeVideo)
           \/ innerHeight' # innerHeight /\ Resize)
             => cameraPose' = cameraPose]_vars

\* The overlay was dragged with the mouse and then scaled with the wheel
\* while the camera was turned away from the identity pose, in a session
\* whose window had been resized and whose mode had been changed.
C16_Witness ==
    /\ cameraPose # IdentityPose /\ tick.ran
    /\ lastOp = Op("wheel", 1) /\ nMouse = 2
    /\ hudCube.x # 0 /\ hudCubeBaseScale = <<11, 10>>
    /\ innerHeight = 1200 /\ trackingMode = "hybrid"

\* C17: a touchmove with one finger during a drag puts the overlay at
\* (objStartX + (x - dragStartX) * k, objStartY - (y - dragStartY) * k) with
\* k = screenPixelToLocal(): it leaves the anchor, the depth and the scale as
\* they were, so the position is a function of the anchor and the latest
\* pointer position, and a pointer back at the drag's start point puts the
\* overlay back at its start position.
C17_DragFollowsPointer ==
    [][(hudCube.id # 0 /\ gesture.isDragging /\ Len(touches') = 1
           /\ A_TouchMove) =>
          /\ hudCube'.x = gesture.objStartX
                + (touches'[1][1] - gesture.dragStartX) * screenPixelToLocal
          /\ hudCube'.y = gesture.objStartY
                - (touches'[1][2] - gesture.dragStartY) * screenPixelToLocal
          /\ gesture' = gesture
          /\ hudCube'.z = hudCube.z /\ hudCube'.scale = hudCube.scale
          /\ hudCubeBaseScale' = hudCubeBaseScale
          /\ touches'[1] = <<gesture.dragStartX, gesture.dragStartY>> =>
                hudCube'.x = gesture.objStartX /\ hudCube'.y = gesture.objStartY
      ]_vars

\* A second drag, started with the overlay away from the origin, has moved
\* the overlay off its start position.
C17_Witness ==
    /\ hudCube.id # 0 /\ gesture.isDragging /\ lastOp = Op("touchmove", 1)
    /\ gesture.objStartX # 0
    /\ hudCube.x # gesture.objStartX /\ hudCube.y # gesture.objStartY
    /\ hudCube.z = <<-3, 2>>

\* C18: a tick consults the pose sources its tracking mode names, SLAM
\* before the sensor.  In 'sensor' mode no frame is handed to the engine and
\* nothing of the VO path changes; in 'slam' mode the sensor pose is not
\* applied, so the pose changes only by a VO write; in 'hybrid' mode a
\* tracking VO result received while the manager was not tracking is the
\* tick's only write, the sensor path having run after it.
C18_SourcesByMode ==
    [][TickStep =>
          /\ tick'.mode = trackingMode
          /\ tick'.slam = (trackingMode \in {"slam", "hybrid"})
          /\ tick'.sensor = (trackingMode \in {"sensor", "hybrid"})
          /\ tick'.writes \in {<<>>, <<"vo">>, <<"sensor">>, <<"vo", "sensor">>}
          /\ trackingMode = "sensor" =>
                /\ tick'.frameOn = 0 /\ tick'.result = "none"
                /\ nVOFrames' = nVOFrames /\ statusText' = statusText
                /\ tick'.writes \in {<<>>, <<"sensor">>}
          /\ trackingMode = "slam" =>
                /\ tick'.writes \in {<<>>, <<"vo">>}
                /\ cpmRef' = cpmRef
                /\ tick'.writes = <<>> => cameraPose' = cameraPose
          /\ (trackingMode = "hybrid" /\ tick'.result = "tracking") =>
                /\ tick'.writes = <<"vo">>
                /\ \E m \in VOMatrices :
                      cameraPose' = applyViewMatrix(cameraPose, m, TRUE)
      ]_vars

\* A tick in 'slam' mode, with a reference orientation taken and the device
\* turned, processed a frame without a tracking result and wrote nothing.
C18_Witness ==
    /\ tick.ran /\ tick.mode = "slam" /\ trackingMode = "slam"
    /\ tick.frameOn # 0 /\ tick.result = "lost" /\ tick.writes = <<>>
    /\ ~IsNone(initialOrientation) /\ deviceOrientation.alpha = 90
    /\ initialOrientation[1].alpha = 0

\* C19: in a tick without a VO instance or with a video frame width of 0
\* no frame is processed; in a tick whose frame is not processed or whose
\* result is null or has tracking = false, processSLAM writes nothing: the
\* status text, the tracking flag and the VO frame count keep their values,
\* and in 'slam' mode, where processSLAM is the only pose source, so does
\* the pose.  The smoothed view matrix is applied, and the status set from
\* it, exactly in the ticks whose result has tracking = true.
C19_SLAMWritesOnlyWhenTracking ==
    [][TickStep =>
          /\ (visualOdometry = 0 \/ ~video \/ videoWidth = 0) =>
                tick'.frameOn = 0 /\ tick'.result = "none"
          /\ tick'.result \in {"none", "null", "lost"} =>
                /\ statusText' = statusText
                /\ isTracking' = isTracking
                /\ nVOFrames' = nVOFrames
                /\ tick'.writes \in {<<>>, <<"sensor">>}
                /\ trackingMode = "slam" => cameraPose' = cameraPose
          /\ tick'.result = "tracking" =>
                /\ tick'.frameOn = visualOdometry /\ videoWidth # 0
                /\ Len(tick'.writes) > 0 /\ tick'.writes[1] = "vo"
                /\ \E m \in VOMatrices :
                      /\ statusText'.position
                            = applyViewMatrix(cameraPose, m, TRUE).position
                      /\ trackingMode = "slam" =>
                            cameraPose' = applyViewMatrix(cameraPose, m, TRUE)
                /\ statusText'.kind = "tracking"
      ]_vars

\* After a frame with a tracking result moved the camera, a 'slam' tick
\* whose result had tracking = false left the pose and the status alone.
C19_Witness ==
    /\ tick.ran /\ tick.mode = "slam" /\ tick.result = "lost"
    /\ nVOFrames = 1 /\ statusText.kind = "tracking"
    /\ cameraPose # IdentityPose /\ statusText.position = cameraPose.position

\* C20: a device-orientation event with a null alpha changes nothing, the
\* latest sample and the reference included; and a tick that runs while no
\* reference orientation exists does not apply the sensor pose: the
\* manager's reference stays as it was and the pose changes only by a VO
\* write.
C20_NoReferenceNoSensorPose ==
    [][/\ \A e \in OrientationSamples :
             (~e.hasAlpha /\ onDeviceOrientation(e)) => UNCHANGED vars
       /\ (IsNone(initialOrientation) /\ TickStep) =>
             /\ tick'.writes \in {<<>>, <<"vo">>}
             /\ cpmRef' = cpmRef
             /\ tick'.writes = <<>> => cameraPose' = cameraPose
      ]_vars

\* A 'sensor' tick ran with no reference orientation, although a sample of
\* a turned device had arrived (a reset dropped the reference), and applied
\* nothing.
C20_Witness ==
    /\ tick.ran /\ tick.mode = "sensor" /\ tick.sensor /\ tick.writes = <<>>
    /\ IsNone(initialOrientation) /\ IsNone(cpmRef)
    /\ deviceOrientation.alpha = 90 /\ cameraPose = IdentityPose

\* C21: a tick hands a frame only to a VO engine whose init has completed
\* successfully, never to one whose init is pending or was rejected; and
\* whenever the mode is 'slam' or 'hybrid' and no initialisation is in
\* flight, the engine held is one whose init succeeded.
C21_FramesOnlyOnReadyEngine ==
    [][/\ (TickStep /\ tick'.frameOn # 0) => voProc[tick'.frameOn] = "done"
       /\ (trackingMode' \in {"slam", "hybrid"} /\ ~InitInFlight') =>
             (visualOdometry' # 0 /\ voProc'[visualOdometry'] = "done")
      ]_vars

\* C22: from the first destroy on no overlay exists: every step that follows
\* a destroy, and destroy itself, leaves the overlay's mesh, texture and
\* video null; and a placement requested before init has completed
\* (isReady false) changes nothing.
C22_NoOverlayAfterDestroy ==
    [][/\ destroyCalls' > 0 =>
             hudCube'.id = 0 /\ hudVideoTexture' = 0 /\ hudVideo' = 0
       /\ (~isReady /\ ChangeVideo) =>
             UNCHANGED <<lifeVars, trackVars, sensorVars, poseVars, gestVars,
                         hostVars, tearVars, uncaught, lastOp, hudCube,
                         hudCubeBaseScale, hudVideo, hudVideoTexture,
                         currentVideoSrc, videos, camChildren, textures,
                         retryTimers, nPlaced, released>>
      ]_vars

\* C23: however many start signals arrive, at most one animate chain is
\* running and at most one set of sensor listeners and one set of gesture
\* listeners is registered.
C23_OneTickChain ==
    /\ TickChains <= 1
    /\ SensorListenerSets <= 1
    /\ GestureListenerSets <= 1

\* C24: the gesture state is dragging or pinching only while an overlay
\* exists: a touchstart without an overlay leaves the gesture state as it
\* was, a touchend that lifts the last touch leaves both flags false, and a
\* touchend classifies a tap only at the end of a one-finger drag that
\* started on an existing overlay.
C24_GestureNeedsOverlay ==
    [][/\ (gesture'.isDragging \/ gesture'.isPinching) => hudCube'.id # 0
       /\ (hudCube.id = 0 /\ A_TouchStart) => gesture' = gesture
       /\ (Len(touches') = 0 /\ A_TouchEnd) =>
             ~gesture'.isDragging /\ ~gesture'.isPinching
       /\ (A_TouchEnd /\ lastOp'.arg > 0) => seq.drag
      ]_vars

\* Wheel zoom after pinches: two-finger touch sessions and wheel notches on
\* a ready session, before and after the placement timer fires.
NextWheel ==
    \/ InitStart
    \/ InitFinish
    \/ PlaceTimerFire
    \/ \E ps \in PinchStarts : Len(ps) = 2 /\ TouchStart(ps)
    \/ \E ts \in PinchLists : TouchMove(ts)
    \/ \E S \in SUBSET (1..MaxTouches) : TouchEnd(S)
    \/ \E down \in BOOLEAN : Wheel(down)

SpecWheel == InitPage /\ [][NextWheel]_vars

\* C25: immediately after a wheel event on an existing overlay the scale is
\* the old scale times 0.9 or 1.1 clamped, a number within [0.3, 5.0],
\* whatever a preceding pinch made of it; a wheel event with no overlay
\* changes neither the overlay nor the scale; and hudCubeBaseScale equals
\* the overlay's scale whenever an overlay exists.
InWheelRange(q) ==
    IsFinite(q) /\ ~Less(q, <<3, 10>>) /\ ~Less(Rat(5), q)

C25_WheelClamps ==
    [][/\ \A down \in BOOLEAN :
             (hudCube.id # 0 /\ Wheel(down)) =>
                /\ hudCubeBaseScale' = WheelScale(hudCubeBaseScale, down)
                /\ InWheelRange(hudCubeBaseScale')
       /\ \A down \in BOOLEAN :
             (hudCube.id = 0 /\ Wheel(down)) =>
                UNCHANGED <<hudCube, hudCubeBaseScale>>
       /\ hudCube'.id # 0 => hudCube'.scale = hudCubeBaseScale'
      ]_vars

\* Placements: the automatic one, change-media requests with and without a
\* source (before and after the session is ready), and placements by
\* mousedown, with mouse drags and wheel notches on the overlay in between.
NextPlace ==
    \/ InitStart
    \/ InitFinish
    \/ PlaceTimerFire
    \/ ChangeVideo
    \/ MouseDown(PressPoint)
    \/ MouseMove(DragPoint)
    \/ MouseUp
    \/ \E down \in BOOLEAN : Wheel(down)

SpecPlace == InitPage /\ [][NextPlace]_vars

\* A step that places an overlay, and one that does so as a placeCube call
\* with no source does (the placement timer, the mousedown handler or a
\* change-media request without a source).
Places == nPlaced' # nPlaced
PlacesUnsourced == Places /\ placeCube("")
AtOrigin(cube) ==
    cube.x = 0 /\ cube.y = 0 /\ cube.z = <<-3, 2>> /\ cube.scale = Rat(1)

\* C26 (as stated): a placement without a source plays the source given to
\* the most recent placeCube call that had one (initially greetgang.mp4),
\* and every placement creates the overlay at (0, 0, -1.5) with scale 1.
C26_PlacementSource ==
    [][/\ PlacesUnsourced => videos'[hudVideo'].src = lastAsked
       /\ Places => AtOrigin(hudCube') /\ hudCubeBaseScale' = Rat(1)
      ]_vars

\* C26 (amended): a placement without a source plays currentVideoSrc, which
\* is greetgang.mp4 until a placeCube call with a source runs on a ready
\* session and from then on the source of the latest such call (a call
\* made before the session is ready leaves it alone); every placement
\* creates the overlay at (0, 0, -1.5) with scale 1.
C26_PlacementSourceWhenReady ==
    [][/\ PlacesUnsourced =>
             /\ videos'[hudVideo'].src = currentVideoSrc
             /\ currentVideoSrc' = currentVideoSrc
       /\ (Places /\ ~PlacesUnsourced) =>
             /\ videos'[hudVideo'].src = lastAsked'
             /\ currentVideoSrc' = videos'[hudVideo'].src
       /\ currentVideoSrc' # currentVideoSrc => isReady /\ Places
       /\ nPlaced = 0 /\ ~isReady => currentVideoSrc = "greetgang.mp4"
       /\ Places => AtOrigin(hudCube') /\ hudCubeBaseScale' = Rat(1)
      ]_vars

\* A second overlay placed without a source after a source was asked for
\* before the session was ready, replacing an overlay that had been
\* dragged away from the origin.
C26_Witness ==
    /\ hudCube.id = 2 /\ AtOrigin(hudCube) /\ hudCubeBaseScale = Rat(1)
    /\ videos[2].src = "greetgang.mp4" /\ lastAsked = "singgang2.mp4"
    /\ gesture.objStartX # 0

==============================================================================
